---- MODULE Spec2Model ----
(***************************************************************************)
(* Model of src/email_validator.py: the bulk e-mail validator.             *)
(*                                                                         *)
(* A run is: load_disposable_domains() at import, argument parsing,        *)
(* read_emails_from_file, one validate_emails([email]) call per address    *)
(* (format check, disposable check, MX check, append), then                *)
(* save_results_to_csv and the summary.  The files and the DNS are the     *)
(* environment.  Strings are sequences of one-character strings so that    *)
(* strip, lower, split and the regular expression are computed, not        *)
(* assumed.                                                                *)
(***************************************************************************)
EXTENDS Integers, Sequences, FiniteSets, TLC

VARIABLES
    pc,                 \* position of the run in the script
    listFile,           \* disposable_email_blocklist.conf, as found on disk
    inputFile,          \* the file named by --input, as found on disk
    dns,                \* what the resolver currently does with an MX query
    dnsEpoch,           \* how many times the DNS state has changed (history)
    DISPOSABLE_DOMAINS, \* the module-level set
    emails,             \* the list read_emails_from_file returned
    idx,                \* position of the main loop in emails (1-based)
    email,              \* locals of validate_emails for the current address
    valid_format,
    is_disposable,
    mx_valid,
    status,
    results,            \* the list of result dictionaries
    events,             \* history: the checks issued, in order
    resultEpoch,        \* history: dnsEpoch of the call that made each record
    printed,            \* the messages written to the terminal
    csv,                \* the output CSV: "none", "written" or "failed"
    uncaught,           \* where an exception left the program, or "none"
    exitCode,           \* the process exit code, Running until it exits
    fmtInput,           \* argument of a direct is_valid_email_format call
    fmtResult           \* its result: "unset", "true" or "false"

vars == <<pc, listFile, inputFile, dns, dnsEpoch, DISPOSABLE_DOMAINS, emails,
          idx, email, valid_format, is_disposable, mx_valid, status, results,
          events, resultEpoch, printed, csv, uncaught, exitCode,
          fmtInput, fmtResult>>

runVars == <<pc, listFile, inputFile, dns, dnsEpoch, DISPOSABLE_DOMAINS,
             emails, idx, email, valid_format, is_disposable, mx_valid,
             status, results, events, resultEpoch, printed, csv,
             uncaught, exitCode>>

-----------------------------------------------------------------------------
(* Bounds of the model.                                                    *)

MaxLines == 3

MaxDnsChanges == 1

MaxFmtLen == 7

\* exitCode while the process has not exited
Running == 0 - 1

-----------------------------------------------------------------------------
(* Characters and the str methods the program uses.                        *)

UpperLetters ==
    <<"A","B","C","D","E","F","G","H","I","J","K","L","M",
      "N","O","P","Q","R","S","T","U","V","W","X","Y","Z">>

LowerLetters ==
    <<"a","b","c","d","e","f","g","h","i","j","k","l","m",
      "n","o","p","q","r","s","t","u","v","w","x","y","z">>

Range(f) == {f[i] : i \in DOMAIN f}

Alpha == Range(UpperLetters) \cup Range(LowerLetters)

Digits == {"0","1","2","3","4","5","6","7","8","9"}

\* [a-zA-Z0-9._%+-]
LocalChars == Alpha \cup Digits \cup {".", "_", "%", "+", "-"}

\* [a-zA-Z0-9.-]
DomainChars == Alpha \cup Digits \cup {".", "-"}

\* the ASCII characters str.strip() removes
Whitespace == {" ", "\t", "\n", "\r", "\f"}

\* the lower-case letter of each upper-case letter
LowerOf ==
    [c \in Range(UpperLetters) |->
        LowerLetters[CHOOSE i \in DOMAIN UpperLetters : UpperLetters[i] = c]]

LowerChar(c) == IF c \in DOMAIN LowerOf THEN LowerOf[c] ELSE c

\* str.lower()
lower(s) == [i \in 1..Len(s) |-> LowerChar(s[i])]

RECURSIVE lstrip(_)
lstrip(s) ==
    IF s = <<>> THEN s
    ELSE IF Head(s) \in Whitespace THEN lstrip(Tail(s)) ELSE s

RECURSIVE rstrip(_)
rstrip(s) ==
    IF s = <<>> THEN s
    ELSE IF s[Len(s)] \in Whitespace THEN rstrip(SubSeq(s, 1, Len(s) - 1))
    ELSE s

\* str.strip()
strip(s) == rstrip(lstrip(s))

\* str.split(sep) for a one-character separator: the list of the pieces
RECURSIVE split(_, _)
split(s, sep) ==
    IF \A i \in 1..Len(s) : s[i] # sep THEN <<s>>
    ELSE LET k == CHOOSE i \in 1..Len(s) :
                      s[i] = sep /\ \A j \in 1..(i - 1) : s[j] # sep
         IN <<SubSeq(s, 1, k - 1)>> \o split(SubSeq(s, k + 1, Len(s)), sep)

\* str.startswith(c) for a one-character prefix
startswith(s, c) == Len(s) >= 1 /\ s[1] = c

\* email.split('@')[-1]
split_last(s) == LET parts == split(s, "@") IN parts[Len(parts)]

-----------------------------------------------------------------------------
(* The pure functions of the program.                                      *)

\* Where '$' can match in s: at the very end, and just before a newline
\* that is the last character (Python's re without re.MULTILINE).
dollar_ends(s) ==
    {Len(s)} \cup (IF Len(s) >= 1 /\ s[Len(s)] = "\n" THEN {Len(s) - 1} ELSE {})

\* re.match(r'^[a-zA-Z0-9._%+-]+@[a-zA-Z0-9.-]+\.[a-zA-Z]{2,}$', s):
\* a is the position of '@', d of the literal '.', e of the last matched
\* character; the matcher backtracks, so a match exists iff some split does.
regex_matches(s) ==
    \E e \in dollar_ends(s) : \E a \in 2..e :
        /\ s[a] = "@"
        /\ \A k \in 1..(a - 1) : s[k] \in LocalChars
        /\ \E d \in (a + 2)..(e - 2) :
            /\ s[d] = "."
            /\ \A k \in (a + 1)..(d - 1) : s[k] \in DomainChars
            /\ \A k \in (d + 1)..e : s[k] \in Alpha

is_valid_email_format(s) == regex_matches(s)

\* IsSuffix(t, s): t is a suffix of s
IsSuffix(t, s) ==
    Len(t) <= Len(s) /\ SubSeq(s, Len(s) - Len(t) + 1, Len(s)) = t

\* variant: a domain also matches when it ends with a listed domain
is_disposable_email_suffix(e, domains) ==
    LET domain == lower(split_last(e)) IN
    \E d \in domains : IsSuffix(d, domain)

is_disposable_email(e, domains) ==
    LET domain == lower(split_last(e)) IN
    IF domain \in domains THEN TRUE ELSE FALSE

\* What dns.resolver.resolve(domain, 'MX') can do: return an answer with
\* records, return an empty answer, or raise one of dnspython's exceptions.
DnsOutcomes == {"MX", "Empty", "NXDOMAIN", "NoAnswer", "Timeout", "NoNameservers"}

DnsRaises == {"NXDOMAIN", "NoAnswer", "Timeout", "NoNameservers"}

\* The classes of dnspython's exceptions: each derives from DNSException.
ExceptionBases ==
    [c \in DnsRaises \cup {"DNSException"} |->
        IF c = "DNSException" THEN {"DNSException", "Exception"}
        ELSE {c, "DNSException", "Exception"}]

\* except (dns.resolver.NXDOMAIN, dns.resolver.NoAnswer,
\*         dns.resolver.Timeout, DNSException)
ExceptClause == {"NXDOMAIN", "NoAnswer", "Timeout", "DNSException"}

\* variant: the clause matches the named classes only, not their subclasses
caught_exact(exc) == exc \in ExceptClause

caught(exc) == ExceptionBases[exc] \cap ExceptClause # {}

\* len(answers) of a returned answer
answers_len(outcome) == IF outcome = "MX" THEN 1 ELSE 0

\* has_mx_record under the resolver outcome: the value returned, or the
\* exception that leaves the function.
has_mx_record(outcome) ==
    IF outcome \notin DnsRaises
    THEN [ret |-> answers_len(outcome) > 0, exc |-> "none"]
    ELSE IF caught(outcome)
         THEN [ret |-> FALSE, exc |-> "none"]
         ELSE [ret |-> FALSE, exc |-> outcome]

\* variant: the line is trimmed but not lower-cased
RECURSIVE load_lines_nolower(_, _)
load_lines_nolower(lines, acc) ==
    IF lines = <<>> THEN acc
    ELSE LET domain == strip(Head(lines)) IN
         IF domain # <<>> /\ ~startswith(domain, "#")
         THEN load_lines_nolower(Tail(lines), acc \cup {domain})
         ELSE load_lines_nolower(Tail(lines), acc)

\* the for loop of load_disposable_domains over the lines of the file
RECURSIVE load_lines(_, _)
load_lines(lines, acc) ==
    IF lines = <<>> THEN acc
    ELSE LET domain == lower(strip(Head(lines))) IN
         IF domain # <<>> /\ ~startswith(domain, "#")
         THEN load_lines(Tail(lines), acc \cup {domain})
         ELSE load_lines(Tail(lines), acc)

\* variant: an address already read is not appended again
RECURSIVE read_lines_dedup(_, _)
read_lines_dedup(lines, acc) ==
    IF lines = <<>> THEN acc
    ELSE LET e == strip(Head(lines)) IN
         IF e # <<>> /\ e \notin Range(acc)
         THEN read_lines_dedup(Tail(lines), Append(acc, e))
         ELSE read_lines_dedup(Tail(lines), acc)

\* the for loop of read_emails_from_file over the lines of the file
RECURSIVE read_lines(_, _)
read_lines(lines, acc) ==
    IF lines = <<>> THEN acc
    ELSE LET e == strip(Head(lines)) IN
         IF e # <<>>
         THEN read_lines(Tail(lines), Append(acc, e))
         ELSE read_lines(Tail(lines), acc)

\* variant: after a read error the addresses read so far are returned
read_emails_partial(file) ==
    IF file.state = "missing" THEN [emails |-> <<>>, msg |-> "not_found"]
    ELSE IF file.state = "unreadable"
    THEN [emails |-> read_lines(file.lines, <<>>), msg |-> "read_error"]
    ELSE [emails |-> read_lines(file.lines, <<>>), msg |-> "read_count"]

\* read_emails_from_file: the list returned and the message printed
read_emails_from_file(file) ==
    IF file.state = "missing" THEN [emails |-> <<>>, msg |-> "not_found"]
    ELSE IF file.state = "unreadable" THEN [emails |-> <<>>, msg |-> "read_error"]
    ELSE [emails |-> read_lines(file.lines, <<>>), msg |-> "read_count"]

-----------------------------------------------------------------------------
(* The environment: the files on disk and the inputs of the run.           *)

\* lines of an input file, as iteration over the file yields them
InputLinePool ==
    { <<" ", "A", "@", "B", ".", "C", "o", "\n">>,   \* " A@B.Co"
      <<"a", "@", "x", ".", "b", ".", "c", "o">>,     \* "a@x.b.co"
      <<"@", "b", ".", "c", "o", "\n">>,              \* "@b.co": no local part
      <<" ", "\n">> }                                 \* a blank line

\* lines of a disposable list file
ListFiles ==
    { [state |-> "absent", lines |-> <<>>],
      [state |-> "unreadable", lines |-> <<>>],
      [state |-> "ok",
       lines |-> << <<" ", "#", "x", ".", "b", ".", "c", "o", "\n">>,
                    <<"B", ".", "C", "o", " ", "\n">>,
                    <<"\n">> >>],
      [state |-> "ok",
       lines |-> << <<"x", ".", "b", ".", "c", "o">> >>] }

SeqsUpTo(S, n) == UNION {[1..k -> S] : k \in 0..n}

InputFiles ==
    { [state |-> "missing", lines |-> <<>>],
      [state |-> "unreadable",
       lines |-> << <<"a", "@", "x", ".", "b", ".", "c", "o">> >>] }
    \cup { [state |-> "ok", lines |-> l] : l \in SeqsUpTo(InputLinePool, MaxLines) }

\* outcomes of parser.parse_args()
ArgOutcomes == {"ok", "usage_error", "version"}

Init ==
    /\ pc = "load"
    /\ listFile \in ListFiles
    /\ inputFile \in InputFiles
    /\ dns \in DnsOutcomes
    /\ dnsEpoch = 0
    /\ DISPOSABLE_DOMAINS = {}
    /\ emails = <<>>
    /\ idx = 1
    /\ email = <<>>
    /\ valid_format = FALSE
    /\ is_disposable = FALSE
    /\ mx_valid = FALSE
    /\ status = "none"
    /\ results = <<>>
    /\ events = <<>>
    /\ resultEpoch = <<>>
    /\ printed = {}
    /\ csv = "none"
    /\ uncaught = "none"
    /\ exitCode = Running
    /\ fmtInput = <<>>
    /\ fmtResult = "unset"

-----------------------------------------------------------------------------
(* The run.                                                                *)

\* variant: the checks run whatever the format check said
after_format_always(valid) == "disposable"

\* if valid_format: ... (else the record keeps its defaults)
after_format(valid) == IF valid THEN "disposable" ELSE "append"

\* variant: the MX check runs for a disposable address too
after_disposable_always(d) == "mx"

\* if is_disposable: status = 'Disposable' else: the MX check
after_disposable(d) == IF d THEN "append" ELSE "mx"

\* variant: the else branch is missing, the status keeps its default
mx_status_no_else(ret) == IF ret THEN "Valid" ELSE "Invalid format"

\* if mx_valid: status = 'Valid' else: status = 'No MX record (domain invalid)'
mx_status(ret) == IF ret THEN "Valid" ELSE "No MX record (domain invalid)"

locals == <<email, valid_format, is_disposable, mx_valid, status>>

env == <<listFile, inputFile, dns, dnsEpoch>>

fmt == <<fmtInput, fmtResult>>

\* load_disposable_domains(), called at import: an absent file leaves the
\* set empty with a warning; an error opening or decoding an existing file
\* is not handled and ends the process with a traceback (exit code 1).
LoadDisposableDomains ==
    /\ pc = "load"
    /\ IF listFile.state = "absent"
       THEN /\ printed' = printed \cup {"warn_no_list"}
            /\ pc' = "args"
            /\ UNCHANGED <<DISPOSABLE_DOMAINS, uncaught, exitCode>>
       ELSE IF listFile.state = "unreadable"
       THEN /\ uncaught' = "load"
            /\ printed' = printed \cup {"traceback"}
            /\ exitCode' = 1
            /\ pc' = "exit"
            /\ UNCHANGED DISPOSABLE_DOMAINS
       ELSE /\ DISPOSABLE_DOMAINS' = load_lines(listFile.lines, DISPOSABLE_DOMAINS)
            /\ printed' = printed \cup {"loaded"}
            /\ pc' = "args"
            /\ UNCHANGED <<uncaught, exitCode>>
    /\ UNCHANGED <<env, emails, idx, locals, results, events, resultEpoch,
                   csv, fmt>>

\* parser.parse_args(): --input is required (exit code 2 without it),
\* --version prints the version and exits with code 0.
ParseArgs ==
    /\ pc = "args"
    /\ \E a \in ArgOutcomes :
        IF a = "ok" THEN pc' = "read" /\ UNCHANGED exitCode
        ELSE IF a = "usage_error" THEN pc' = "exit" /\ exitCode' = 2
        ELSE pc' = "exit" /\ exitCode' = 0
    /\ UNCHANGED <<env, DISPOSABLE_DOMAINS, emails, idx, locals, results,
                   events, resultEpoch, printed, csv, uncaught, fmt>>

\* emails = read_emails_from_file(args.input); if not emails: exit(1)
ReadInput ==
    /\ pc = "read"
    /\ LET r == read_emails_from_file(inputFile) IN
        /\ emails' = r.emails
        /\ IF r.emails = <<>>
           THEN /\ printed' = printed \cup {r.msg, "no_emails"}
                /\ exitCode' = 1
                /\ pc' = "exit"
           ELSE /\ printed' = printed \cup {r.msg}
                /\ pc' = "loop"
                /\ UNCHANGED exitCode
    /\ UNCHANGED <<env, DISPOSABLE_DOMAINS, idx, locals, results, events,
                   resultEpoch, csv, uncaught, fmt>>

\* One iteration of the main loop enters validate_emails([email]):
\* normalisation, the skip of an empty address, the format check and the
\* defaults of the record.
FormatCheck ==
    /\ pc = "loop"
    /\ idx <= Len(emails)
    /\ LET e == lower(strip(emails[idx])) IN
        IF e = <<>>
        THEN /\ idx' = idx + 1
             /\ UNCHANGED <<pc, locals, events>>
        ELSE /\ email' = e
             /\ valid_format' = is_valid_email_format(e)
             /\ is_disposable' = FALSE
             /\ mx_valid' = FALSE
             /\ status' = "Invalid format"
             /\ events' = Append(events,
                    [call |-> idx, kind |-> "format",
                     ok |-> is_valid_email_format(e), outcome |-> "none"])
             /\ pc' = after_format(is_valid_email_format(e))
             /\ UNCHANGED idx
    /\ UNCHANGED <<env, DISPOSABLE_DOMAINS, emails, results, resultEpoch,
                   printed, csv, uncaught, exitCode, fmt>>

\* variant: a domain that is not listed is remembered in the set
DisposableCheck_caching ==
    /\ pc = "disposable"
    /\ LET d == is_disposable_email(email, DISPOSABLE_DOMAINS) IN
        /\ is_disposable' = d
        /\ DISPOSABLE_DOMAINS' = DISPOSABLE_DOMAINS \cup {lower(split_last(email))}
        /\ events' = Append(events,
               [call |-> idx, kind |-> "lookup", ok |-> d, outcome |-> "none"])
        /\ IF d THEN status' = "Disposable" ELSE UNCHANGED status
        /\ pc' = after_disposable(d)
    /\ UNCHANGED <<env, emails, idx, email, valid_format,
                   mx_valid, results, resultEpoch, printed, csv,
                   uncaught, exitCode, fmt>>

\* is_disposable = is_disposable_email(email); a match ends the checks
DisposableCheck ==
    /\ pc = "disposable"
    /\ LET d == is_disposable_email(email, DISPOSABLE_DOMAINS) IN
        /\ is_disposable' = d
        /\ events' = Append(events,
               [call |-> idx, kind |-> "lookup", ok |-> d, outcome |-> "none"])
        /\ IF d THEN status' = "Disposable" ELSE UNCHANGED status
        /\ pc' = after_disposable(d)
    /\ UNCHANGED <<env, DISPOSABLE_DOMAINS, emails, idx, email, valid_format,
                   mx_valid, results, resultEpoch, printed, csv,
                   uncaught, exitCode, fmt>>

\* mx_valid = has_mx_record(domain), against the DNS as it is now
MxCheck ==
    /\ pc = "mx"
    /\ LET r == has_mx_record(dns) IN
        /\ events' = Append(events,
               [call |-> idx, kind |-> "dns", ok |-> r.ret, outcome |-> dns])
        /\ IF r.exc # "none"
           THEN /\ uncaught' = "validate"
                /\ printed' = printed \cup {"traceback"}
                /\ exitCode' = 1
                /\ pc' = "exit"
                /\ UNCHANGED <<mx_valid, status>>
           ELSE /\ mx_valid' = r.ret
                /\ status' = mx_status(r.ret)
                /\ pc' = "append"
                /\ UNCHANGED <<uncaught, exitCode, printed>>
    /\ UNCHANGED <<env, DISPOSABLE_DOMAINS, emails, idx, email, valid_format,
                   is_disposable, results, resultEpoch, csv, fmt>>

\* results.append({...}); validate_emails returns and the loop goes on
AppendResult ==
    /\ pc = "append"
    /\ results' = Append(results,
           [email |-> email, valid_format |-> valid_format,
            disposable |-> is_disposable, mx_valid |-> mx_valid,
            status |-> status])
    /\ resultEpoch' = Append(resultEpoch, dnsEpoch)
    /\ idx' = idx + 1
    /\ pc' = "loop"
    /\ UNCHANGED <<env, DISPOSABLE_DOMAINS, emails, locals, events,
                   printed, csv, uncaught, exitCode, fmt>>

\* After the loop: save_results_to_csv (an error writing is caught and
\* printed), the summary, and the end of the script.
SaveResults ==
    /\ pc = "loop"
    /\ idx > Len(emails)
    /\ IF results = <<>>
       THEN printed' = printed \cup {"no_results"} /\ UNCHANGED csv
       ELSE \E ok \in BOOLEAN :
            IF ok THEN csv' = "written" /\ printed' = printed \cup {"csv_saved"}
            ELSE csv' = "failed" /\ printed' = printed \cup {"csv_error"}
    /\ exitCode' = 0
    /\ pc' = "done"
    /\ UNCHANGED <<env, DISPOSABLE_DOMAINS, emails, idx, locals, results,
                   events, resultEpoch, uncaught, fmt>>

\* The DNS is outside the program: what it answers can change from one
\* classification to the next (a classification reads it once, so a change
\* during one is a change before or after it, and a change before the
\* first one is another initial state).
DnsChange ==
    /\ pc = "loop"
    /\ 1 < idx /\ idx <= Len(emails)
    /\ dnsEpoch < MaxDnsChanges
    /\ \E o \in DnsOutcomes \ {dns} : dns' = o
    /\ dnsEpoch' = dnsEpoch + 1
    /\ UNCHANGED <<pc, listFile, inputFile, DISPOSABLE_DOMAINS, emails, idx,
                   locals, results, events, resultEpoch, printed,
                   csv, uncaught, exitCode, fmt>>

Next ==
    \/ LoadDisposableDomains
    \/ ParseArgs
    \/ ReadInput
    \/ FormatCheck
    \/ DisposableCheck
    \/ MxCheck
    \/ AppendResult
    \/ SaveResults
    \/ DnsChange

Spec == Init /\ [][Next]_vars

-----------------------------------------------------------------------------
(* is_valid_email_format called directly, on any string.                   *)

FmtAlphabet == {"a", "1", "%", ".", "@", "\n"}

InitFormat ==
    /\ fmtInput \in SeqsUpTo(FmtAlphabet, MaxFmtLen)
    /\ fmtResult = "unset"
    /\ pc = "direct"
    /\ listFile = [state |-> "absent", lines |-> <<>>]
    /\ inputFile = [state |-> "missing", lines |-> <<>>]
    /\ dns = "MX"
    /\ dnsEpoch = 0
    /\ DISPOSABLE_DOMAINS = {}
    /\ emails = <<>>
    /\ idx = 1
    /\ email = <<>>
    /\ valid_format = FALSE
    /\ is_disposable = FALSE
    /\ mx_valid = FALSE
    /\ status = "none"
    /\ results = <<>>
    /\ events = <<>>
    /\ resultEpoch = <<>>
    /\ printed = {}
    /\ csv = "none"
    /\ uncaught = "none"
    /\ exitCode = Running

CallFormat ==
    /\ pc = "direct"
    /\ fmtResult = "unset"
    /\ fmtResult' = IF is_valid_email_format(fmtInput) THEN "true" ELSE "false"
    /\ UNCHANGED <<runVars, fmtInput>>

NextFormat == CallFormat

SpecFormat == InitFormat /\ [][NextFormat]_vars

-----------------------------------------------------------------------------
(* Properties.                                                             *)

InvalidFormat == "Invalid format"
Disposable == "Disposable"
NoMx == "No MX record (domain invalid)"
Valid == "Valid"

\* the lines of the input file that are non-blank after trimming, in order
NonBlank(lines) == SelectSeq(lines, LAMBDA l : strip(l) # <<>>)

\* the events of the call that classified the c-th address
EventsOf(c, kinds) ==
    {k \in DOMAIN events : events[k].call = c /\ events[k].kind \in kinds}

\* the status with the boolean triple that goes with it
StatusMapping ==
    { <<InvalidFormat, FALSE, FALSE, FALSE>>,
      <<Disposable, TRUE, TRUE, FALSE>>,
      <<NoMx, TRUE, FALSE, FALSE>>,
      <<Valid, TRUE, FALSE, TRUE>> }

\* C1: every address handed to validate_emails gets a record, and every
\* record carries one of the four statuses with exactly the boolean triple
\* of that status; no exception ends the classification instead.
C1_StatusMatchesTriple ==
    /\ \A i \in DOMAIN results :
        <<results[i].status, results[i].valid_format, results[i].disposable,
          results[i].mx_valid>> \in StatusMapping
    /\ uncaught # "validate"
    /\ pc \in {"loop", "disposable", "mx", "append", "done"} =>
        Len(results) = idx - 1
    /\ pc = "done" => Len(results) = Len(emails)

C1_Witness ==
    /\ pc = "done"
    /\ \E i, j, k \in DOMAIN results :
        /\ results[i].status = InvalidFormat
        /\ results[j].status = Disposable
        /\ results[k].status = Valid

\* the records the classification of address e can give, by the order of
\* the checks: format, then disposable, then MX
Classifications(e) ==
    IF ~is_valid_email_format(e)
    THEN {[email |-> e, valid_format |-> FALSE, disposable |-> FALSE,
           mx_valid |-> FALSE, status |-> InvalidFormat]}
    ELSE IF split_last(e) \in DISPOSABLE_DOMAINS
    THEN {[email |-> e, valid_format |-> TRUE, disposable |-> TRUE,
           mx_valid |-> FALSE, status |-> Disposable]}
    ELSE {[email |-> e, valid_format |-> TRUE, disposable |-> FALSE,
           mx_valid |-> TRUE, status |-> Valid],
          [email |-> e, valid_format |-> TRUE, disposable |-> FALSE,
           mx_valid |-> FALSE, status |-> NoMx]}

\* C2: the records are, in order, the classifications of the non-blank
\* lines of the input: the i-th record is that of the i-th non-blank line,
\* and a finished batch has exactly as many records as non-blank lines
\* (blank lines give none, repeated addresses give repeated records).
C2_OrderPreserved ==
    LET nb == NonBlank(inputFile.lines) IN
    /\ Len(results) <= Len(nb)
    /\ \A i \in DOMAIN results :
        LET e == lower(strip(nb[i])) IN
        /\ results[i].email = e
        /\ results[i] \in Classifications(e)
    /\ pc = "done" => Len(results) = Len(nb)

C2_Witness ==
    /\ pc = "done"
    /\ Len(inputFile.lines) = 3
    /\ strip(inputFile.lines[2]) = <<>>
    /\ Len(results) = 2
    /\ results[1].email = results[2].email

\* C3: a disposable lookup or DNS query of a call comes only after that
\* call's format check succeeded; a record with valid_format false has
\* neither.
C3_NoLookupAfterFormatReject ==
    /\ \A k \in DOMAIN events :
        events[k].kind \in {"lookup", "dns"} =>
            \E j \in 1..(k - 1) :
                /\ events[j].call = events[k].call
                /\ events[j].kind = "format"
                /\ events[j].ok
    /\ \A k \in DOMAIN events :
        (events[k].kind = "format" /\ ~events[k].ok) =>
            EventsOf(events[k].call, {"lookup", "dns"}) = {}
    /\ \A i \in DOMAIN results :
        ~results[i].valid_format => EventsOf(i, {"lookup", "dns"}) = {}

C3_Witness ==
    \E i, j \in DOMAIN results :
        /\ ~results[i].valid_format
        /\ EventsOf(i, {"format"}) # {}
        /\ results[j].valid_format
        /\ EventsOf(j, {"dns"}) # {}

\* C4: a DNS query of a call comes only after that call's disposable lookup
\* said no; a call whose lookup said yes issues no DNS query and its record
\* has mx_valid false and the status Disposable.
C4_NoDnsAfterDisposable ==
    /\ \A k \in DOMAIN events :
        events[k].kind = "dns" =>
            \E j \in 1..(k - 1) :
                /\ events[j].call = events[k].call
                /\ events[j].kind = "lookup"
                /\ ~events[j].ok
    /\ \A k \in DOMAIN events :
        (events[k].kind = "lookup" /\ events[k].ok) =>
            /\ EventsOf(events[k].call, {"dns"}) = {}
            /\ events[k].call \in DOMAIN results =>
                /\ results[events[k].call].disposable
                /\ ~results[events[k].call].mx_valid
                /\ results[events[k].call].status = Disposable
    /\ \A i \in DOMAIN results :
        results[i].disposable =>
            /\ EventsOf(i, {"dns"}) = {}
            /\ ~results[i].mx_valid
            /\ results[i].status = Disposable

C4_Witness ==
    \E i, j \in DOMAIN results :
        /\ results[i].disposable
        /\ EventsOf(i, {"lookup"}) # {}
        /\ ~results[j].disposable
        /\ EventsOf(j, {"dns"}) # {}

\* the resolver outcomes that are a failed MX resolution
MxFailures == DnsRaises \cup {"Empty"}

\* C5: no exception leaves the classification; an MX query that fails
\* (NXDOMAIN, no answer, timeout, another resolver exception, an empty
\* answer) gives mx_valid false and the status "No MX record (domain
\* invalid)", in the locals right after the query and in the record.
C5_MxFailureIsAStatus ==
    /\ uncaught # "validate"
    /\ \A k \in DOMAIN events :
        (events[k].kind = "dns" /\ events[k].outcome \in MxFailures) =>
            /\ ~events[k].ok
            /\ IF events[k].call \in DOMAIN results
               THEN /\ ~results[events[k].call].mx_valid
                    /\ results[events[k].call].status = NoMx
               ELSE /\ pc = "append"
                    /\ idx = events[k].call
                    /\ ~mx_valid
                    /\ status = NoMx

C5_Witness ==
    \E k \in DOMAIN events :
        /\ events[k].kind = "dns"
        /\ events[k].outcome = "NoNameservers"
        /\ events[k].call \in DOMAIN results
        /\ results[events[k].call].status = NoMx

\* the input file gives no address to process
InputUnusable ==
    \/ inputFile.state \in {"missing", "unreadable"}
    \/ NonBlank(inputFile.lines) = <<>>

Exited == pc \in {"exit", "done"}

\* a run that classified nothing and wrote no CSV
NothingDone == results = <<>> /\ events = <<>> /\ csv = "none"

\* C6 as stated: an unusable input file gives exit code 1 with an error
\* reported, no classification and no CSV; every other run exits with 0.
C6_ExitCodesAsStated ==
    Exited =>
        IF InputUnusable
        THEN /\ exitCode = 1
             /\ printed \cap {"not_found", "read_error", "no_emails",
                               "traceback"} # {}
             /\ NothingDone
        ELSE exitCode = 0

\* what a run that stops on its input looks like
InputErrorExit ==
    /\ exitCode = 1
    /\ "no_emails" \in printed
    /\ inputFile.state = "missing" => "not_found" \in printed
    /\ inputFile.state = "unreadable" => "read_error" \in printed
    /\ NothingDone

\* read_emails_from_file has run (each of its paths prints one message)
InputWasRead == printed \cap {"not_found", "read_error", "read_count"} # {}

\* C6 amended: in a run that gets as far as reading the input file, an
\* unusable input file gives exit code 1 with the error reported, no
\* classification and no CSV, and any other input file gives exit code 0,
\* also when writing the CSV failed; a run stopped at startup by an error
\* reading the disposable list exits with 1 without classifying anything.
C6_ExitCodesAfterStartup ==
    /\ (Exited /\ InputWasRead) =>
        IF InputUnusable THEN InputErrorExit
        ELSE exitCode = 0 /\ pc = "done" /\ csv \in {"written", "failed"}
    /\ (Exited /\ uncaught = "load") => (exitCode = 1 /\ NothingDone)
    /\ ~Exited => exitCode = Running

C6_Witness ==
    /\ pc = "exit"
    /\ InputWasRead
    /\ inputFile.state = "ok"
    /\ Len(inputFile.lines) = 2
    /\ exitCode = 1

\* C7: two records of the same address, classified with no change of the
\* DNS between the two classifications, are identical.
C7_SameAddressSameRecord ==
    \A i, j \in DOMAIN results :
        (i < j /\ results[i].email = results[j].email
               /\ resultEpoch[i] = resultEpoch[j]) =>
            results[i] = results[j]

C7_Witness ==
    \E i, j \in DOMAIN results :
        /\ i < j
        /\ results[i].email = results[j].email
        /\ resultEpoch[i] = resultEpoch[j]
        /\ results[i].status = NoMx
        /\ DISPOSABLE_DOMAINS # {}

\* the whole string is local part, '@', domain part, '.', two or more
\* letters, with nothing before or after
WholeStringPattern(s) ==
    \E a \in 2..Len(s) : \E d \in (a + 2)..(Len(s) - 2) :
        /\ s[a] = "@"
        /\ s[d] = "."
        /\ \A k \in 1..(a - 1) : s[k] \in LocalChars
        /\ \A k \in (a + 1)..(d - 1) : s[k] \in DomainChars
        /\ \A k \in (d + 1)..Len(s) : s[k] \in Alpha

\* C8: is_valid_email_format(s) is true exactly when the whole of s, first
\* character to last, is of the form local@domain.tld; a string with
\* anything after it, a trailing newline included, is rejected.
C8_FormatIsWholeString ==
    fmtResult # "unset" => (fmtResult = "true" <=> WholeStringPattern(fmtInput))

\* the part of s after its last '@' (s itself when it has none), lower-cased
DomainAfterLastAt(s) ==
    LET ats == {i \in 1..Len(s) : s[i] = "@"} IN
    IF ats = {} THEN lower(s)
    ELSE LET last == CHOOSE i \in ats : \A j \in ats : j <= i
         IN lower(SubSeq(s, last + 1, Len(s)))

ExpectedDomains(lines) ==
    {d \in {lower(strip(lines[i])) : i \in DOMAIN lines} :
        d # <<>> /\ d[1] # "#"}

\* C10: once load_disposable_domains has run, the set is exactly the
\* domains of the list file, or empty with only a warning when the file
\* does not exist; nothing later in the run changes it.
C10_SetIsTheListFile ==
    /\ (pc # "load" /\ listFile.state = "ok") =>
        DISPOSABLE_DOMAINS = ExpectedDomains(listFile.lines)
    /\ (pc # "load" /\ listFile.state = "absent") =>
        /\ DISPOSABLE_DOMAINS = {}
        /\ "warn_no_list" \in printed
        /\ uncaught = "none"
    /\ pc = "load" => DISPOSABLE_DOMAINS = {}

C10_Witness ==
    /\ pc = "done"
    /\ Len(listFile.lines) = 3
    /\ DISPOSABLE_DOMAINS = {<<"b", ".", "c", "o">>}
    /\ \E i \in DOMAIN results : results[i].disposable

====
